---- MODULE Spec2Model ----
(***************************************************************************)
(* Model of diesel/src/pg/types/numeric.rs: the conversion between         *)
(* BigDecimal and PgNumeric (PostgreSQL NUMERIC in base 10000).            *)
(*                                                                         *)
(*  - ToBase10000::next        the base-10000 digit iterator               *)
(*  - PgNumeric::from          BigDecimal -> PgNumeric  (encode)           *)
(*  - BigDecimal::from_sql     PgNumeric -> BigDecimal  (decode)           *)
(*                                                                         *)
(* A BigInt is a TLA+ integer, a BigUint a natural number.  A BigDecimal   *)
(* is the pair [int, scale] that as_bigint_and_exponent() returns: its     *)
(* value is int * 10^(-scale).  Option<T> is a set with at most one        *)
(* element: None == {} and Some(v) == {v}.  A panic (a failed expect, a    *)
(* slice index out of range) is the outcome tagged "Panic".                *)
(***************************************************************************)
EXTENDS Integers, Naturals, Sequences, FiniteSets, TLC

VARIABLES
    mode,      \* the entry point driven: "encode", "decode" or "digits"
    decimal,   \* the BigDecimal handed to PgNumeric::from
    numeric,   \* the PgNumeric: result of from, argument of from_sql
    decoded,   \* the Result<BigDecimal, Error> of from_sql
    source,    \* the BigUint the ToBase10000 iterator was built on
    self,      \* ToBase10000.0, an Option<BigUint>
    item,      \* what the last call of next() returned, an Option<i16>
    yielded,   \* the Some(..) items next() returned so far, in order
    calls,     \* number of calls of next() so far
    panicked   \* whether a call of next() panicked

vars == <<mode, decimal, numeric, decoded, source, self, item, yielded, calls, panicked>>

(***************************************************************************)
(* Bounds of the model.                                                    *)
(***************************************************************************)
MaxMag    == 12   \* magnitudes 0..MaxMag, besides the boundary magnitudes
MaxScale  == 9    \* scales 0..MaxScale, besides the scales past u16
MaxWrap   == 5    \* scales 2^16 .. 2^16 + MaxWrap
MaxCount  == 2    \* decoder inputs carry up to MaxCount digits
MaxWeight == 2    \* decoder inputs carry weights -MaxWeight..MaxWeight
MaxCalls  == 5    \* calls of next() on one iterator

\* Largest number the model checker can hold; BigUint values stay below it.
MaxBig == (2^30 - 1) + 2^30

(***************************************************************************)
(* Machine integers and Option.                                            *)
(***************************************************************************)
Base    == 10000
U16     == 2^16
I16_MAX == 2^15 - 1

None    == {}
Some(v) == {v}
Unwrap(o) == CHOOSE v \in o : TRUE

\* `scale as u16`: an i64 truncated to its low 16 bits.
as_u16(v) == v % U16

\* ToPrimitive::to_i16 of a BigUint: None when it does not fit.
to_i16(v) == IF v <= I16_MAX THEN Some(v) ELSE None

abs(i) == IF i < 0 THEN -i ELSE i

\* BigInt::sign
sign(i) == IF i > 0 THEN "Plus" ELSE IF i < 0 THEN "Minus" ELSE "NoSign"

\* Vec::reverse
RECURSIVE reverse(_)
reverse(s) == IF s = << >> THEN << >> ELSE Append(reverse(Tail(s)), Head(s))

\* `x as i16`: truncation to 16 bits, read as two's complement.
as_i16(v) == ((v + 2^15) % U16) - 2^15

\* `x as usize` of an i16.  A negative i16 sign-extends to 2^64 + x, which is
\* above every Vec length; it is held as MaxBig, the largest number here.
as_usize(v) == IF v >= 0 THEN v ELSE MaxBig

\* `digit as u64` of an i16, as as_usize.
as_u64(v) == IF v >= 0 THEN v ELSE MaxBig

(***************************************************************************)
(* ToBase10000: Iterator over the digits of a big uint in base 10k, in     *)
(* little endian order.                                                    *)
(***************************************************************************)
\* next() with the test of the quotient made on the remainder instead.
next_tests_rem(it) ==
    IF it = None
    THEN [self |-> None, item |-> None, panic |-> FALSE]
    ELSE LET v    == Unwrap(it)
             div  == v \div Base
             rem  == v % Base
             conv == to_i16(rem)
         IN  [self  |-> IF rem # 0 THEN Some(div) ELSE None,
              item  |-> conv,
              panic |-> conv = None]

\* One call of next() on an iterator whose field is `it`: the field after
\* the call, the item returned, and whether the expect failed.
next(it) ==
    IF it = None
    THEN [self |-> None, item |-> None, panic |-> FALSE]
    ELSE LET v    == Unwrap(it)
             div  == v \div Base
             rem  == v % Base
             conv == to_i16(rem)
         IN  [self  |-> IF div # 0 THEN Some(div) ELSE None,
              item  |-> conv,
              panic |-> conv = None]

\* Iterator::collect::<Vec<_>>: next() until it returns None.
RECURSIVE collect(_, _)
collect(it, acc) ==
    LET r == next(it)
    IN  IF r.panic THEN [panic |-> TRUE, digits |-> acc]
        ELSE IF r.item = None THEN [panic |-> FALSE, digits |-> acc]
        ELSE collect(r.self, Append(acc, Unwrap(r.item)))

(***************************************************************************)
(* PgNumeric                                                               *)
(***************************************************************************)
Positive(digits, scale, weight) ==
    [tag |-> "Positive", weight |-> weight, scale |-> scale, digits |-> digits]
Negative(digits, scale, weight) ==
    [tag |-> "Negative", weight |-> weight, scale |-> scale, digits |-> digits]
NaN ==
    [tag |-> "NaN", weight |-> 0, scale |-> 0, digits |-> << >>]
\* PgNumeric::from did not return: it panicked.
Panic ==
    [tag |-> "Panic", weight |-> 0, scale |-> 0, digits |-> << >>]
\* No PgNumeric yet.
Unset ==
    [tag |-> "Unset", weight |-> 0, scale |-> 0, digits |-> << >>]

(***************************************************************************)
(* impl From<&BigDecimal> for PgNumeric                                    *)
(***************************************************************************)
\* Padding that leaves the scale alone when it is a multiple of 4 already.
pad_steps_none_on_boundary(scale) == (4 - (scale % 4)) % 4

\* "Ensure that the decimal will always lie on a digit boundary":
\* the number of iterations of the padding loop.
pad_steps(scale) == 4 - (scale % 4)

\* The padding loop: integer = integer * 10, k times.
RECURSIVE pad(_, _)
pad(integer, k) == IF k = 0 THEN integer ELSE pad(integer * 10, k - 1)

\* BigInt::to_biguint: None for a negative number.
to_biguint(i) == IF i >= 0 THEN Some(i) ELSE None

\* iter().rev().take_while(|i| i.is_zero()).count()
RECURSIVE trailing_zeroes(_)
trailing_zeroes(s) ==
    IF s = << >> THEN 0
    ELSE IF s[Len(s)] = 0 THEN 1 + trailing_zeroes(SubSeq(s, 1, Len(s) - 1))
    ELSE 0

\* The count taken over the whole of digits, not from index_of_decimal on.
unneccessary_zeroes_of_all(digits, index_of_decimal) ==
    trailing_zeroes(digits)

\* unneccessary_zeroes, for an index_of_decimal within digits:
\* the trailing zeroes of digits[index_of_decimal..].
unneccessary_zeroes(digits, index_of_decimal) ==
    trailing_zeroes(SubSeq(digits, index_of_decimal + 1, Len(digits)))

\* Vec::truncate
truncate(s, n) == IF n < Len(s) THEN SubSeq(s, 1, n) ELSE s

from(d) ==
    LET scale   == as_u16(d.scale)
        integer == pad(abs(d.int), pad_steps(scale))
        big     == to_biguint(integer)
    IN  IF big = None THEN Panic
        ELSE
        LET c == collect(Some(Unwrap(big)), << >>)
        IN  IF c.panic THEN Panic
            ELSE
            LET digits               == reverse(c.digits)
                digits_after_decimal == scale \div 4 + 1
                weight               == as_i16(Len(digits))
                                          - as_i16(digits_after_decimal) - 1
                index_of_decimal     == as_usize(weight + 1)
            IN  \* digits[index_of_decimal..] panics past the end of digits
                IF index_of_decimal > Len(digits) THEN Panic
                ELSE
                LET relevant_digits ==
                        Len(digits) - unneccessary_zeroes(digits, index_of_decimal)
                    kept == truncate(digits, relevant_digits)
                IN  CASE sign(d.int) = "Plus"   -> Positive(kept, scale, weight)
                      [] sign(d.int) = "Minus"  -> Negative(kept, scale, weight)
                      [] sign(d.int) = "NoSign" -> Positive(<<0>>, 0, 0)

(***************************************************************************)
(* impl FromSql<types::Numeric, Pg> for BigDecimal                         *)
(***************************************************************************)
Ok(value) == [kind |-> "Ok", value |-> value, error |-> ""]
Err(msg)  == [kind |-> "Err", value |-> [int |-> 0, scale |-> 0], error |-> msg]
NoResult  == [kind |-> "Unset", value |-> [int |-> 0, scale |-> 0], error |-> ""]

NaNError == "NaN is not (yet) supported in BigDecimal"

\* The loop `for digit in digits`, from result = acc.
RECURSIVE accumulate(_, _)
accumulate(acc, digits) ==
    IF digits = << >> THEN acc
    ELSE accumulate(acc * 10000 + as_u64(Head(digits)), Tail(digits))

\* The exponent with the + 1 left out.
correction_exp_off_by_one(weight, count) == 4 * (weight - count)

\* "First digit got factor 10_000^(digits.len() - 1), but should get
\* 10_000^weight"
correction_exp(weight, count) == 4 * (weight - count + 1)

\* BigInt::from_biguint
from_biguint(sgn, mag) == IF sgn = "Minus" THEN -mag ELSE mag

\* from_sql with NaN read as zero.
from_sql_nan_is_zero(n) ==
    LET result == accumulate(0, n.digits)
        count  == Len(n.digits)
    IN  Ok([int   |-> from_biguint(IF n.tag = "Negative" THEN "Minus" ELSE "Plus", result),
            scale |-> -correction_exp(n.weight, count)])

from_sql(n) ==
    IF n.tag = "NaN" THEN Err(NaNError)
    ELSE
    LET sgn    == IF n.tag = "Positive" THEN "Plus" ELSE "Minus"
        result == accumulate(0, n.digits)
        count  == Len(n.digits)
    IN  Ok([int   |-> from_biguint(sgn, result),
            scale |-> -correction_exp(n.weight, count)])

(***************************************************************************)
(* Inputs.                                                                 *)
(***************************************************************************)
\* Magnitudes around the base-10000 digit boundaries.
BoundaryMags == {99, 100, 999, 1000, 9999, 10000, 10001, 12345, 20000,
                 99999, 100000, 123456, 200000}
Mags   == (0 .. MaxMag) \cup BoundaryMags
\* Scales below 2^16, and scales that `scale as u16` truncates.
Scales == (0 .. MaxScale) \cup {U16 + k : k \in 0 .. MaxWrap}

Decimals == {[int |-> sg * m, scale |-> s] : sg \in {1, -1}, m \in Mags, s \in Scales}
NoDecimal == [int |-> 0, scale |-> 0]

\* Whether the digits accumulate to a number no larger than MaxBig.
RECURSIVE fits(_, _)
fits(acc, digits) ==
    IF digits = << >> THEN TRUE
    ELSE /\ acc <= (MaxBig - Head(digits)) \div 10000
         /\ fits(acc * 10000 + Head(digits), Tail(digits))

WireDigits == {0, 1, 100, 9999}
WireScales == {0, 2}
DigitSeqs  == {d \in UNION {[1 .. n -> WireDigits] : n \in 0 .. MaxCount} : fits(0, d)}
Wires ==
    {NaN} \cup
    {[tag |-> t, weight |-> w, scale |-> s, digits |-> d] :
        t \in {"Positive", "Negative"}, w \in -MaxWeight .. MaxWeight,
        s \in WireScales, d \in DigitSeqs}

\* Numbers the digit iterator is started on.
Sources == Mags \cup {m * Base : m \in Mags}
                \cup {99999999, 100000000, 100000001, MaxBig}

(***************************************************************************)
(* The state machine: one conversion, or one iterator, per behaviour.      *)
(***************************************************************************)
IdleIter ==
    /\ source = 0
    /\ self = None
    /\ item = None
    /\ yielded = << >>
    /\ calls = 0
    /\ panicked = FALSE

\* A BigDecimal about to be bound by to_sql.
InitEncode ==
    /\ mode = "encode"
    /\ decimal \in Decimals
    /\ numeric = Unset
    /\ decoded = NoResult
    /\ IdleIter

\* A PgNumeric read from the wire, about to be decoded by from_sql.
InitDecode ==
    /\ mode = "decode"
    /\ decimal = NoDecimal
    /\ numeric \in Wires
    /\ decoded = NoResult
    /\ IdleIter

\* ToBase10000(Some(integer)), not yet advanced.
InitDigits ==
    /\ mode = "digits"
    /\ decimal = NoDecimal
    /\ numeric = Unset
    /\ decoded = NoResult
    /\ source \in Sources
    /\ self = Some(source)
    /\ item = None
    /\ yielded = << >>
    /\ calls = 0
    /\ panicked = FALSE

Init == InitEncode \/ InitDecode \/ InitDigits

\* to_sql: PgNumeric::from(self)
ToSql ==
    /\ mode = "encode"
    /\ numeric = Unset
    /\ numeric' = from(decimal)
    /\ UNCHANGED <<mode, decimal, decoded, source, self, item, yielded, calls, panicked>>

\* from_sql, of a value off the wire or of the value to_sql produced.
FromSql ==
    /\ numeric.tag \in {"Positive", "Negative", "NaN"}
    /\ decoded = NoResult
    /\ decoded' = from_sql(numeric)
    /\ UNCHANGED <<mode, decimal, numeric, source, self, item, yielded, calls, panicked>>

\* One call of next() on the iterator, exhausted or not.
IterNext ==
    /\ mode = "digits"
    /\ ~panicked
    /\ calls < MaxCalls
    /\ LET r == next(self)
       IN  /\ self' = r.self
           /\ item' = r.item
           /\ panicked' = r.panic
           /\ yielded' = IF r.item = None THEN yielded
                         ELSE Append(yielded, Unwrap(r.item))
    /\ calls' = calls + 1
    /\ UNCHANGED <<mode, decimal, numeric, decoded, source>>

Next == ToSql \/ FromSql \/ IterNext

Spec == Init /\ [][Next]_vars

(***************************************************************************)
(* Arithmetic the properties are stated in.                                *)
(***************************************************************************)
RECURSIVE Pow(_, _)
Pow(b, e) == IF e = 0 THEN 1 ELSE b * Pow(b, e - 1)

\* Sum of d[i] * 10000^(Len(d) - i): most significant digit first.
RECURSIVE MsdSum(_, _)
MsdSum(d, i) ==
    IF i > Len(d) THEN 0 ELSE d[i] * Pow(Base, Len(d) - i) + MsdSum(d, i + 1)

\* Sum of d[i] * 10000^(i - 1): least significant digit first.
RECURSIVE LsdSum(_, _)
LsdSum(d, i) ==
    IF i > Len(d) THEN 0 ELSE d[i] * Pow(Base, i - 1) + LsdSum(d, i + 1)

\* The pair [int, scale] with every factor 10 moved out of int; zero is [0, 0].
\* Two decimals are numerically equal exactly when these pairs are equal.
RECURSIVE Normal(_)
Normal(x) ==
    IF x.int = 0 THEN [int |-> 0, scale |-> 0]
    ELSE IF x.int % 10 = 0 THEN Normal([int |-> x.int \div 10, scale |-> x.scale - 1])
    ELSE x

NumEq(x, y) == Normal(x) = Normal(y)

\* The decimal a Positive or Negative wire value denotes, its first digit
\* having positional value 10000^weight.
Denoted(n) ==
    [int   |-> (IF n.tag = "Negative" THEN -1 ELSE 1) * MsdSum(n.digits, 1),
     scale |-> 4 * (Len(n.digits) - 1 - n.weight)]

\* Number of base-10000 digits of n: 1 for 0, floor(log_10000 n) + 1 otherwise
\* (n <= MaxBig < 10000^3).
NumDigits(n) == IF n < Base THEN 1 ELSE IF n < Base * Base THEN 2 ELSE 3

Encoded  == mode = "encode" /\ numeric # Unset
Returned == Encoded /\ numeric # Panic
Decoded  == decoded # NoResult

(***************************************************************************)
(* C1: PgNumeric::from is total: for every magnitude, sign and scale >= 0  *)
(* it returns a wire value and never panics.                               *)
(* Fails: 0.00001 (magnitude 1, scale 5) gives weight = -2, and            *)
(* digits[(weight + 1) as usize..] is out of range.                        *)
(***************************************************************************)
C1_EncodeNeverPanics == Encoded => numeric # Panic

(***************************************************************************)
(* C2: zero encodes to Positive{weight: 0, scale: 0, digits: [0]} whatever *)
(* its scale.  Fails: zero with scale 4 panics at the slice.               *)
(***************************************************************************)
C2_ZeroIsCanonical ==
    (Encoded /\ decimal.int = 0) => numeric = Positive(<<0>>, 0, 0)

(***************************************************************************)
(* C3: whenever from returns for a non-zero decimal of scale s >= 0, the   *)
(* wire value's scale is s and its digits and weight denote the input.     *)
(* Fails: `scale as u16` turns scale 65536 into 0.                         *)
(***************************************************************************)
C3_WireDenotesInput ==
    (Returned /\ decimal.int # 0) =>
        /\ numeric.scale = decimal.scale
        /\ NumEq(Denoted(numeric), decimal)

\* C3 holds of every scale that fits a u16.
C3_HoldsBelowU16 ==
    (Returned /\ decimal.int # 0 /\ decimal.scale < U16) =>
        /\ numeric.scale = decimal.scale
        /\ NumEq(Denoted(numeric), decimal)

(***************************************************************************)
(* C4: for every non-negative integer n (scale 0), from returns and        *)
(* decoding what it returns gives unscaled magnitude n, exponent 0.        *)
(***************************************************************************)
C4_IntegerRoundTrip ==
    (mode = "encode" /\ decimal.scale = 0 /\ decimal.int >= 0) =>
        /\ Encoded => numeric.tag = "Positive"
        /\ Decoded => decoded = Ok([int |-> decimal.int, scale |-> 0])

C4_Witness ==
    /\ mode = "encode"
    /\ decimal = [int |-> 10000, scale |-> 0]
    /\ numeric = Positive(<<1, 0>>, 0, 1)
    /\ decoded = Ok([int |-> 10000, scale |-> 0])

(***************************************************************************)
(* C5: for every x # 0 of scale >= 0, from(x) is tagged Positive when      *)
(* x > 0 and Negative when x < 0, and from(-x) has the other tag and the   *)
(* same weight, scale and digits.  Fails where from panics (C1).           *)
(***************************************************************************)
C5_SignPreserved ==
    (Encoded /\ decimal.int # 0) =>
        LET other == from([decimal EXCEPT !.int = -decimal.int])
        IN  /\ numeric.tag = IF decimal.int > 0 THEN "Positive" ELSE "Negative"
            /\ other.tag   = IF decimal.int > 0 THEN "Negative" ELSE "Positive"
            /\ other.weight = numeric.weight
            /\ other.scale  = numeric.scale
            /\ other.digits = numeric.digits

\* C5 holds wherever from returns.
C5_HoldsWhereReturned ==
    (Returned /\ decimal.int # 0) =>
        LET other == from([decimal EXCEPT !.int = -decimal.int])
        IN  /\ numeric.tag = IF decimal.int > 0 THEN "Positive" ELSE "Negative"
            /\ other.tag   = IF decimal.int > 0 THEN "Negative" ELSE "Positive"
            /\ other.weight = numeric.weight
            /\ other.scale  = numeric.scale
            /\ other.digits = numeric.digits

(***************************************************************************)
(* C6: decoding NaN fails with the unsupported-value error, as an Err and  *)
(* with no decimal; decoding Positive or Negative never fails.             *)
(***************************************************************************)
C6_NaNIsTheOnlyError ==
    Decoded =>
        /\ numeric.tag = "NaN" => decoded = Err(NaNError)
        /\ numeric.tag \in {"Positive", "Negative"} => decoded.kind = "Ok"

C6_Witness ==
    /\ mode = "decode"
    /\ numeric = NaN
    /\ decoded.kind = "Err"

(***************************************************************************)
(* C7: for every decimal of scale >= 0 for which from returns, decoding    *)
(* the result succeeds and is numerically equal to the decimal.            *)
(* Fails: the scale truncated by `scale as u16` (C3).                      *)
(***************************************************************************)
C7_RoundTripNumEq ==
    (Returned /\ Decoded) =>
        /\ decoded.kind = "Ok"
        /\ NumEq(decoded.value, decimal)

\* C7 holds of every scale that fits a u16.
C7_HoldsBelowU16 ==
    (Returned /\ Decoded /\ decimal.scale < U16) =>
        /\ decoded.kind = "Ok"
        /\ NumEq(decoded.value, decimal)

(***************************************************************************)
(* C8: decoding a Positive or Negative value of count digits and weight w  *)
(* gives the magnitude sum of d[i] * 10000^(count - 1 - i), signed by the  *)
(* tag, with decimal scale 4 * (count - 1 - w); the scale field is not     *)
(* read, so values that differ in it alone decode alike.                   *)
(***************************************************************************)
C8_DecodeByWeight ==
    (Decoded /\ numeric.tag \in {"Positive", "Negative"}) =>
        LET count == Len(numeric.digits)
            sum   == MsdSum(numeric.digits, 1)
        IN  /\ decoded.kind = "Ok"
            /\ decoded.value.int = IF numeric.tag = "Negative" THEN -sum ELSE sum
            /\ decoded.value.scale = 4 * (count - 1 - numeric.weight)
            /\ decoded.value.scale % 4 = 0
            /\ numeric.weight > count - 1 => decoded.value.scale < 0
            /\ \A s \in WireScales \cup Scales :
                   from_sql([numeric EXCEPT !.scale = as_u16(s)]) = decoded

\* 0.01 as the server sends it comes back as 0.0100.
C8_Witness ==
    /\ mode = "decode"
    /\ numeric = Positive(<<100>>, 2, -1)
    /\ decoded = Ok([int |-> 100, scale |-> 4])

(***************************************************************************)
(* C9: for a non-zero input for which from returns, the digits emitted are *)
(* the digits of the padded magnitude less a run of trailing zeroes: no    *)
(* digit at index <= weight is dropped, every dropped digit is zero, an    *)
(* emitted array longer than weight + 1 ends in a non-zero digit, and the  *)
(* zero digit a 4-step pad appends is always dropped.                      *)
(***************************************************************************)
C9_TrimOnlyFractionZeroes ==
    (Returned /\ decimal.int # 0) =>
        LET scale   == as_u16(decimal.scale)
            padded  == abs(decimal.int) * Pow(10, 4 - (scale % 4))
            kept    == numeric.digits
            \* weight = len - (scale / 4 + 1) - 1 of the untrimmed digits
            len     == numeric.weight + (scale \div 4) + 2
            dropped == len - Len(kept)
        IN  /\ dropped >= 0
            /\ \A i \in 1 .. Len(kept) : kept[i] \in 0 .. Base - 1
            /\ kept[1] # 0
            \* kept is a prefix of the digits of padded, the rest are zeroes
            /\ MsdSum(kept, 1) * Pow(Base, dropped) = padded
            /\ Len(kept) >= numeric.weight + 1
            /\ Len(kept) > numeric.weight + 1 => kept[Len(kept)] # 0
            /\ scale % 4 = 0 => dropped >= 1

\* 10000 keeps the zero of its integer part and loses the padding zero.
C9_Witness ==
    /\ mode = "encode"
    /\ decimal = [int |-> 10000, scale |-> 0]
    /\ numeric = Positive(<<1, 0>>, 0, 1)

(***************************************************************************)
(* C10: ToBase10000 on n is exhausted after NumDigits(n) calls of next(),  *)
(* having yielded the base-10000 digits of n least significant first: each *)
(* in 0..9999 (the expect never fails), summing to n, a single 0 for       *)
(* n = 0, the last one non-zero otherwise; every later call yields None.   *)
(***************************************************************************)
C10_DigitsOfSource ==
    mode = "digits" =>
        /\ ~panicked
        /\ \A i \in 1 .. Len(yielded) : yielded[i] \in 0 .. Base - 1
        /\ calls < NumDigits(source) =>
               /\ self # None
               /\ Len(yielded) = calls
        /\ calls >= NumDigits(source) =>
               /\ self = None
               /\ Len(yielded) = NumDigits(source)
               /\ LsdSum(yielded, 1) = source
               /\ source = 0 => yielded = <<0>>
               /\ source # 0 => yielded[Len(yielded)] # 0
        /\ calls > NumDigits(source) => item = None

\* 10^8 yields 0, 0, 1 and then nothing.
C10_Witness ==
    /\ mode = "digits"
    /\ source = 100000000
    /\ yielded = <<0, 0, 1>>
    /\ self = None
    /\ item = None
    /\ calls = 5

====
